---------------------------- MODULE Spec2Model ----------------------------
(***************************************************************************)
(* A model of sqlstrings/postgre.py: the SQL statement builders insert,    *)
(* update, create_table, procedure_call, drop_table and select.            *)
(*                                                                         *)
(* A Python str is a sequence of one-character strings, so that joining,   *)
(* concatenation and tuple(<str>) (which splits a str into its characters) *)
(* are computed as Python computes them.  A Python object whose type the   *)
(* code inspects (isinstance, "is None") is a record tagged with its kind. *)
(* A call either returns a str or raises; both are results.                *)
(***************************************************************************)
EXTENDS Integers, Sequences, FiniteSets

VARIABLES op, args, pc, ret

vars == <<op, args, pc, ret>>

(***************************************************************************)
(* Bounds of the inputs.                                                   *)
(***************************************************************************)
\* The largest number of entries of a mapping and of names in a sequence.
MaxCols == 2
\* The largest number of rows of a multi-row insert.
MaxRows == 2

(***************************************************************************)
(* Python objects.                                                         *)
(***************************************************************************)
None == [kind |-> "None"]

PyInt(n) == [kind |-> "int", n |-> n]

Str(s) == [kind |-> "str", s |-> s]

\* A set display {x}: the object the lambda of args_serialise returns.
PySet(xs) == [kind |-> "set", items |-> xs]

\* A tuple or list of objects.
Tuple(xs) == [kind |-> "tuple", items |-> xs]

List(xs) == [kind |-> "list", items |-> xs]

\* A dict in insertion order: a sequence of <<key, value>>, the keys strs.
Dict(kvs) == [kind |-> "dict", items |-> kvs]

\* d.keys(), d.values() and d.items() in insertion order.
keys(d) == [i \in 1..Len(d.items) |-> Str(d.items[i][1])]

values(d) == [i \in 1..Len(d.items) |-> d.items[i][2]]

\* tuple(s) of a str s: the tuple of its characters.
tuple(x) == Tuple([i \in 1..Len(x.s) |-> Str(<<x.s[i]>>)])

(***************************************************************************)
(* Results: a returned str, or the exception raised.                       *)
(***************************************************************************)
Ok(s) == [raised |-> "none", str |-> s]

Raise(e) == [raised |-> e, str |-> <<>>]

\* The results rs evaluated left to right and concatenated: the first
\* exception propagates.
RECURSIVE Cat(_)
Cat(rs) ==
    IF rs = <<>> THEN Ok(<<>>)
    ELSE IF Head(rs).raised # "none" THEN Head(rs)
    ELSE LET rest == Cat(Tail(rs))
         IN  IF rest.raised # "none" THEN rest
             ELSE Ok(Head(rs).str \o rest.str)

\* sep.join(ss) of strs.
RECURSIVE JoinStr(_, _)
JoinStr(sep, ss) ==
    IF ss = <<>> THEN <<>>
    ELSE IF Len(ss) = 1 THEN ss[1]
    ELSE ss[1] \o sep \o JoinStr(sep, Tail(ss))

\* sep.join(xs) of objects: str.join raises TypeError on an item that is
\* not a str.
Join(sep, xs) ==
    IF \E i \in 1..Len(xs) : xs[i].kind # "str"
    THEN Raise("TypeError")
    ELSE Ok(JoinStr(sep, [i \in 1..Len(xs) |-> xs[i].s]))

\* sep.join(map(f, ...)) where the mapped items are results: the first
\* exception propagates, else the strs are joined.
JoinResults(sep, rs) ==
    IF \E i \in 1..Len(rs) : rs[i].raised # "none"
    THEN rs[CHOOSE i \in 1..Len(rs) :
                /\ rs[i].raised # "none"
                /\ \A j \in 1..(i - 1) : rs[j].raised = "none"]
    ELSE Ok(JoinStr(sep, [i \in 1..Len(rs) |-> rs[i].str]))

\* str(n) of an int.
Digits == <<"0","1","2","3","4","5","6","7","8","9">>

RECURSIVE NatStr(_)
NatStr(n) ==
    IF n < 10 THEN <<Digits[n + 1]>>
    ELSE NatStr(n \div 10) \o <<Digits[(n % 10) + 1]>>

IntStr(n) == IF n < 0 THEN <<"-">> \o NatStr(-n) ELSE NatStr(n)

\* f'{x}' of a str, an int or None.
Format(x) ==
    CASE x.kind = "str" -> x.s
      [] x.kind = "int" -> IntStr(x.n)
      [] x.kind = "None" -> <<"N","o","n","e">>

(***************************************************************************)
(* sqlstrings.value_handling.write_val: the SQL literal of a value.        *)
(* Strings are single-quoted, numbers pass unquoted, None is NULL.         *)
(***************************************************************************)
write_val(v) ==
    CASE v.kind = "str" -> <<"'">> \o v.s \o <<"'">>
      [] v.kind = "int" -> IntStr(v.n)
      [] v.kind = "None" -> <<"N","U","L","L">>

(***************************************************************************)
(* insert                                                                  *)
(***************************************************************************)
\* The lambda maps each value v to the set {write_val(v)}, and the items
\* are then joined.
args_serialise(value_dict) ==
    Join(<<","," ">>, [i \in 1..Len(values(value_dict)) |->
                    PySet(<<Str(write_val(values(value_dict)[i]))>>)])

\* Lines 26-27: the column list and the statement text, once names and
\* values_str are known.
insert_finish(table_name, names, values_str) ==
    LET names_str == Join(<<","," ">>, names)
    IN  IF values_str.raised # "none" THEN values_str
        ELSE IF names_str.raised # "none" THEN names_str
        ELSE Ok(<<"I","N","S","E","R","T"," ","I","N","T","O"," ">> \o table_name \o <<"\n">>
                \o <<"\t">> \o table_name \o <<"(">> \o names_str.str
                \o <<")","\n","V","A","L","U","E","S","\n","\t">> \o values_str.str \o <<";">>)

insert(table_name, names_values) ==
    IF names_values.kind = "list"
    THEN IF names_values.items = <<>>
         THEN Raise("IndexError")
         ELSE insert_finish(table_name, keys(names_values.items[1]),
                  JoinResults(<<","," ","\n","\t">>,
                      [i \in 1..Len(names_values.items) |->
                          Cat(<<Ok(<<"(">>),
                                args_serialise(names_values.items[i]),
                                Ok(<<")">>)>>)]))
    ELSE IF names_values.kind = "dict"
    THEN insert_finish(table_name, keys(names_values),
             Cat(<<Ok(<<"(">>), args_serialise(names_values), Ok(<<")">>)>>))
    ELSE Raise("UnboundLocalError")

(***************************************************************************)
(* update                                                                  *)
(***************************************************************************)
\* update with the assignments emitted in reverse mapping order.
update_reversed(table_name, names_values, where) ==
    Cat(<<Ok(<<"U","P","D","A","T","E"," ">> \o table_name \o <<"\n","S","E","T"," ">>),
          Join(<<",","\n"," "," "," "," ">>,
               [i \in 1..Len(names_values.items) |->
                   LET kv == names_values.items[Len(names_values.items) + 1 - i]
                   IN  Str(kv[1] \o <<" ","="," ">> \o write_val(kv[2]))]),
          IF where # None
          THEN Ok(<<"\n","W","H","E","R","E"," ">> \o Format(where) \o <<";">>)
          ELSE Ok(<<>>)>>)

update(table_name, names_values, where) ==
    Cat(<<Ok(<<"U","P","D","A","T","E"," ">> \o table_name \o <<"\n","S","E","T"," ">>),
          Join(<<",","\n"," "," "," "," ">>,
               [i \in 1..Len(names_values.items) |->
                   Str(names_values.items[i][1] \o <<" ","="," ">>
                       \o write_val(names_values.items[i][2]))]),
          IF where # None
          THEN Ok(<<"\n","W","H","E","R","E"," ">> \o Format(where) \o <<";">>)
          ELSE Ok(<<>>)>>)

(***************************************************************************)
(* create_table                                                            *)
(***************************************************************************)
create_table(table_name, names_types) ==
    Cat(<<Ok(<<"C","R","E","A","T","E"," ","T","A","B","L","E"," ">> \o table_name \o <<" ","(">>),
          Join(<<",","\n","\t">>,
               [i \in 1..Len(names_types.items) |->
                   Str(names_types.items[i][1] \o <<" ">>
                       \o Format(names_types.items[i][2]))]),
          Ok(<<"\n",")",";">>)>>)

(***************************************************************************)
(* procedure_call                                                          *)
(***************************************************************************)
procedure_call(proc_name, param_args) ==
    Cat(<<Ok(<<"C","A","L","L"," ">> \o proc_name \o <<"(">>),
          Join(<<","," ">>,
               [i \in 1..Len(param_args.items) |->
                   Str(write_val(param_args.items[i][2]))]),
          Ok(<<")",";">>)>>)

(***************************************************************************)
(* drop_table                                                              *)
(***************************************************************************)
\* drop_table with the IF EXISTS fragment carrying no leading space.
drop_table_one_space(table_names, if_exists, cascade, restrict) ==
    Cat(<<Ok(<<"D","R","O","P"," ","T","A","B","L","E"," ">>),
          Ok(IF if_exists THEN <<"I","F"," ","E","X","I","S","T","S"," "," ">> ELSE <<>>),
          IF table_names.kind = "str"
          THEN Ok(table_names.s)
          ELSE Join(<<","," ">>, table_names.items),
          Ok(IF cascade /\ ~restrict THEN <<" ","C","A","S","C","A","D","E">> ELSE <<>>),
          Ok(IF restrict /\ ~cascade THEN <<" ","R","E","S","T","R","I","C","T">> ELSE <<>>),
          Ok(<<";">>)>>)

\* drop_table with CASCADE appended whenever cascade is set.
drop_table_cascade_wins(table_names, if_exists, cascade, restrict) ==
    Cat(<<Ok(<<"D","R","O","P"," ","T","A","B","L","E"," ">>),
          Ok(IF if_exists THEN <<" ","I","F"," ","E","X","I","S","T","S"," "," ">> ELSE <<>>),
          IF table_names.kind = "str"
          THEN Ok(table_names.s)
          ELSE Join(<<","," ">>, table_names.items),
          Ok(IF cascade THEN <<" ","C","A","S","C","A","D","E">> ELSE <<>>),
          Ok(IF restrict /\ ~cascade THEN <<" ","R","E","S","T","R","I","C","T">> ELSE <<>>),
          Ok(<<";">>)>>)

drop_table(table_names, if_exists, cascade, restrict) ==
    Cat(<<Ok(<<"D","R","O","P"," ","T","A","B","L","E"," ">>),
          Ok(IF if_exists THEN <<" ","I","F"," ","E","X","I","S","T","S"," "," ">> ELSE <<>>),
          IF table_names.kind = "str"
          THEN Ok(table_names.s)
          ELSE Join(<<","," ">>, table_names.items),
          Ok(IF cascade /\ ~restrict THEN <<" ","C","A","S","C","A","D","E">> ELSE <<>>),
          Ok(IF restrict /\ ~cascade THEN <<" ","R","E","S","T","R","I","C","T">> ELSE <<>>),
          Ok(<<";">>)>>)

(***************************************************************************)
(* select                                                                  *)
(***************************************************************************)
\* Lines 109, 117, 123: a str is replaced by the tuple of its characters.
as_tuple(x) == IF x.kind = "str" THEN tuple(x) ELSE x

\* The clauses in the order lines 110-133 append them.
select_clauses(cols, frm, distinct, where, group_by, having, order_by, order_desc, limit, offset, fetch) ==
    <<Cat(<<Ok(<<"S","E","L","E","C","T"," ">>
               \o (IF distinct THEN <<"D","I","S","T","I","N","C","T"," ">> ELSE <<>>)),
            Join(<<","," ">>, as_tuple(cols).items)>>),
      Ok(<<"\n","F","R","O","M"," ">> \o frm),
      Ok(IF where = None THEN <<>> ELSE <<"\n","W","H","E","R","E"," ">> \o Format(where)),
      IF group_by # None
      THEN Cat(<<Ok(<<"\n","G","R","O","U","P"," ","B","Y"," ">>),
                 Join(<<","," ">>, as_tuple(group_by).items)>>)
      ELSE Ok(<<>>),
      Ok(IF having = None THEN <<>> ELSE <<"\n","H","A","V","I","N","G"," ">> \o Format(having)),
      IF order_by # None
      THEN Cat(<<Ok(<<"\n","O","R","D","E","R"," ","B","Y"," ">>),
                 Join(<<","," ">>, as_tuple(order_by).items),
                 Ok(IF ~order_desc THEN <<>> ELSE <<" ","D","E","S","C">>)>>)
      ELSE IF order_desc
      THEN Ok(<<"\n","O","R","D","E","R"," ","B","Y"," ","D","E","S","C">>)
      ELSE Ok(<<>>),
      Ok(IF limit = None THEN <<>> ELSE <<"\n","L","I","M","I","T"," ">> \o Format(limit)),
      Ok(IF offset = None THEN <<>>
         ELSE <<"\n","O","F","F","S","E","T"," ">>
              \o Format(offset) \o <<" ","R","O","W","S">>),
      Ok(IF fetch = None THEN <<>>
         ELSE <<"\n","F","E","T","C","H"," ","F","I","R","S","T"," ">>
              \o Format(fetch) \o <<" ","R","O","W","S"," ","O","N","L","Y">>),
      Ok(<<";">>)>>

\* select with the HAVING clause appended before the GROUP BY clause.
select_having_first(cols, frm, distinct, where, group_by, having, order_by, order_desc, limit, offset, fetch) ==
    LET cs == select_clauses(cols, frm, distinct, where, group_by, having,
                             order_by, order_desc, limit, offset, fetch)
    IN  Cat([i \in 1..Len(cs) |->
                IF i = 4 THEN cs[5] ELSE IF i = 5 THEN cs[4] ELSE cs[i]])

select(cols, frm, distinct, where, group_by, having, order_by, order_desc, limit, offset, fetch) ==
    Cat(select_clauses(cols, frm, distinct, where, group_by, having,
                       order_by, order_desc, limit, offset, fetch))

(***************************************************************************)
(* The arguments the builders are called with.                             *)
(***************************************************************************)
TableNames == {<<"t">>, <<"t","1">>, <<"t","2">>}

ColNames == {<<"a">>, <<"b">>, <<"i","d">>}

Vals == {PyInt(1), PyInt(20), Str(<<"x">>), None}

Types == {Str(<<"i","n","t">>), Str(<<"t","e","x","t">>)}

Conditions == {Str(<<"i","d","=","5">>), Str(<<"a",">","1">>)}

\* The mappings of at most MaxCols entries, keys distinct, in every order.
Dicts(names, vals) ==
    UNION {{d \in [1..k -> names \X vals] :
               \A i, j \in 1..k : i # j => d[i][1] # d[j][1]} :
           k \in 0..MaxCols}

\* The rows of a multi-row insert, and the lists of at most MaxRows rows.
RowNames == {<<"a">>, <<"b">>}

RowVals == {PyInt(1), Str(<<"x">>)}

RowLists ==
    UNION {[1..n -> {Dict(d) : d \in Dicts(RowNames, RowVals)}] :
           n \in 0..MaxRows}

\* The sequences of 1..MaxCols names.
NameSeqs(names) ==
    UNION {[1..k -> {Str(n) : n \in names}] : k \in 1..MaxCols}

NameLists == UNION {[1..k -> {Str(n) : n \in TableNames}] : k \in 0..MaxCols}

\* A column argument of select: one name, or a tuple of names.
ColArgs ==
    {Str(n) : n \in ColNames} \cup {Tuple(ns) : ns \in NameSeqs(ColNames)}

GroupArgs ==
    {None, Str(<<"i","d">>), Tuple(<<Str(<<"i","d">>)>>), Tuple(<<Str(<<"a">>), Str(<<"b">>)>>)}

(***************************************************************************)
(* The state: one call of a builder.  op and args are the builder called   *)
(* and its arguments, pc tells whether it has run, ret is its result.      *)
(* The builders keep no state between calls, so a behaviour is one call:   *)
(* Init draws the builder and its arguments, the builder's action runs it. *)
(***************************************************************************)
Pending == [raised |-> "pending", str |-> <<>>]

InsertCalls ==
    {[table_name |-> t, names_values |-> nv] :
        t \in TableNames,
        nv \in {Dict(d) : d \in Dicts(ColNames, Vals)}
               \cup {List(rows) : rows \in RowLists}}

UpdateCalls ==
    {[table_name |-> t, names_values |-> Dict(d), where |-> w] :
        t \in TableNames, d \in Dicts(ColNames, Vals),
        w \in {None} \cup Conditions}

CreateTableCalls ==
    {[table_name |-> t, names_types |-> Dict(d)] :
        t \in TableNames, d \in Dicts(ColNames, Types)}

ProcedureCallCalls ==
    {[proc_name |-> p, param_args |-> Dict(d)] :
        p \in TableNames, d \in Dicts(ColNames, Vals)}

DropTableCalls ==
    {[table_names |-> ns, if_exists |-> ie, cascade |-> ca, restrict |-> re] :
        ns \in {Str(t) : t \in TableNames} \cup {List(l) : l \in NameLists},
        ie \in BOOLEAN, ca \in BOOLEAN, re \in BOOLEAN}

SelectCalls ==
    {[cols |-> c, frm |-> <<"t">>, distinct |-> di, where |-> wh,
      group_by |-> gb, having |-> ha, order_by |-> ob, order_desc |-> od,
      limit |-> li, offset |-> off, fetch |-> fe] :
        c \in ColArgs, di \in BOOLEAN, wh \in {None, Str(<<"i","d","=","5">>)},
        gb \in GroupArgs, ha \in {None, Str(<<"a",">","1">>)}, ob \in GroupArgs,
        od \in BOOLEAN, li \in {None, PyInt(5)}, off \in {None, PyInt(10)},
        fe \in {None, PyInt(3)}}

Init ==
    /\ pc = "call"
    /\ ret = Pending
    /\ \/ op = "insert" /\ args \in InsertCalls
       \/ op = "update" /\ args \in UpdateCalls
       \/ op = "create_table" /\ args \in CreateTableCalls
       \/ op = "procedure_call" /\ args \in ProcedureCallCalls
       \/ op = "drop_table" /\ args \in DropTableCalls
       \/ op = "select" /\ args \in SelectCalls

Insert ==
    /\ pc = "call"
    /\ op = "insert"
    /\ ret' = insert(args.table_name, args.names_values)
    /\ pc' = "done"
    /\ UNCHANGED <<op, args>>

Update ==
    /\ pc = "call"
    /\ op = "update"
    /\ ret' = update(args.table_name, args.names_values, args.where)
    /\ pc' = "done"
    /\ UNCHANGED <<op, args>>

CreateTable ==
    /\ pc = "call"
    /\ op = "create_table"
    /\ ret' = create_table(args.table_name, args.names_types)
    /\ pc' = "done"
    /\ UNCHANGED <<op, args>>

ProcedureCall ==
    /\ pc = "call"
    /\ op = "procedure_call"
    /\ ret' = procedure_call(args.proc_name, args.param_args)
    /\ pc' = "done"
    /\ UNCHANGED <<op, args>>

DropTable ==
    /\ pc = "call"
    /\ op = "drop_table"
    /\ ret' = drop_table(args.table_names, args.if_exists, args.cascade,
                         args.restrict)
    /\ pc' = "done"
    /\ UNCHANGED <<op, args>>

Select ==
    /\ pc = "call"
    /\ op = "select"
    /\ ret' = select(args.cols, args.frm, args.distinct, args.where,
                     args.group_by, args.having, args.order_by,
                     args.order_desc, args.limit, args.offset, args.fetch)
    /\ pc' = "done"
    /\ UNCHANGED <<op, args>>

Next ==
    \/ Insert
    \/ Update
    \/ CreateTable
    \/ ProcedureCall
    \/ DropTable
    \/ Select

Spec == Init /\ [][Next]_vars

(***************************************************************************)
(* Reading a returned string.                                              *)
(***************************************************************************)
StartsWith(s, p) == Len(p) <= Len(s) /\ SubSeq(s, 1, Len(p)) = p

EndsWith(s, p) ==
    Len(p) <= Len(s) /\ SubSeq(s, Len(s) - Len(p) + 1, Len(s)) = p

\* The positions at which p occurs in s.
Occurrences(s, p) ==
    {i \in 1..(Len(s) - Len(p) + 1) : SubSeq(s, i, i + Len(p) - 1) = p}

Contains(s, p) == Occurrences(s, p) # {}

\* The first position >= k at which p occurs in s, or 0.
FindFrom(s, p, k) ==
    LET at == {i \in Occurrences(s, p) : i >= k}
    IN  IF at = {} THEN 0 ELSE CHOOSE i \in at : \A j \in at : i <= j

\* ps occur in s one after another, without overlap, from position k on:
\* the position after the last of them, or 0 when they do not.
RECURSIVE InOrderFrom(_, _, _)
InOrderFrom(s, ps, k) ==
    IF ps = <<>> THEN k
    ELSE LET i == FindFrom(s, Head(ps), k)
         IN  IF i = 0 THEN 0
             ELSE InOrderFrom(s, Tail(ps), i + Len(Head(ps)))

Returned == pc = "done" /\ ret.raised = "none"

\* The columns of a mapping, and the literals of its values.
ColumnList(d) == JoinStr(<<","," ">>, [i \in 1..Len(d.items) |-> d.items[i][1]])

ValueGroup(d) ==
    <<"(">> \o JoinStr(<<","," ">>, [i \in 1..Len(d.items) |->
                              write_val(d.items[i][2])]) \o <<")">>

ColumnSet(d) == {d.items[i][1] : i \in 1..Len(d.items)}

(***************************************************************************)
(* C1: insert of a table name t and one non-empty mapping m returns        *)
(* 'INSERT INTO t\n\tt(<columns>)\nVALUES\n\t(<literals>);', columns and    *)
(* literals joined by ', ' in mapping order.                               *)
(***************************************************************************)
C1_InsertSingleRow ==
    (/\ pc = "done"
     /\ op = "insert"
     /\ args.names_values.kind = "dict"
     /\ args.names_values.items # <<>>)
    => ret = Ok(<<"I","N","S","E","R","T"," ","I","N","T","O"," ">> \o args.table_name \o <<"\n","\t">>
                \o args.table_name \o <<"(">> \o ColumnList(args.names_values)
                \o <<")","\n","V","A","L","U","E","S","\n","\t">> \o ValueGroup(args.names_values) \o <<";">>)

(***************************************************************************)
(* C2: insert of n >= 1 rows that share their columns returns the columns  *)
(* of the first row and n parenthesized groups, one per row in row order,  *)
(* separated by ', \n\t' and followed by ';'.                              *)
(***************************************************************************)
C2_InsertRows ==
    (/\ pc = "done"
     /\ op = "insert"
     /\ args.names_values.kind = "list"
     /\ args.names_values.items # <<>>
     /\ \A i \in 1..Len(args.names_values.items) :
            ColumnSet(args.names_values.items[i])
                = ColumnSet(args.names_values.items[1]))
    => ret = Ok(<<"I","N","S","E","R","T"," ","I","N","T","O"," ">> \o args.table_name \o <<"\n","\t">>
                \o args.table_name \o <<"(">>
                \o ColumnList(args.names_values.items[1])
                \o <<")","\n","V","A","L","U","E","S","\n","\t">>
                \o JoinStr(<<","," ","\n","\t">>,
                       [i \in 1..Len(args.names_values.items) |->
                           ValueGroup(args.names_values.items[i])])
                \o <<";">>)

\* The arguments the builders are meant for: mappings and name lists are
\* not empty, and cascade and restrict are not both set.
ValidArgs ==
    CASE op = "insert" ->
            IF args.names_values.kind = "dict"
            THEN args.names_values.items # <<>>
            ELSE /\ args.names_values.items # <<>>
                 /\ \A i \in 1..Len(args.names_values.items) :
                        /\ args.names_values.items[i].items # <<>>
                        /\ ColumnSet(args.names_values.items[i])
                               = ColumnSet(args.names_values.items[1])
      [] op = "update" -> args.names_values.items # <<>>
      [] op = "create_table" -> args.names_types.items # <<>>
      [] op = "procedure_call" -> TRUE
      [] op = "drop_table" ->
            /\ args.table_names.kind = "list"
                   => args.table_names.items # <<>>
            /\ ~(args.cascade /\ args.restrict)
      [] op = "select" -> TRUE

(***************************************************************************)
(* C3: the string a builder returns for valid arguments ends with a        *)
(* semicolon, whichever optional arguments are given or left out.          *)
(***************************************************************************)
C3_EndsWithSemicolon == (Returned /\ ValidArgs) => EndsWith(ret.str, <<";">>)

(***************************************************************************)
(* C4: update(t, m, w) of a non-empty mapping m and a where string w       *)
(* starts with 'UPDATE t', holds 'SET ' followed by one                    *)
(* 'col = write_val(val)' per entry of m in mapping order, and ends with   *)
(* 'WHERE w;', after all the assignments.                                  *)
(***************************************************************************)
C4_UpdateWithWhere ==
    (/\ pc = "done"
     /\ op = "update"
     /\ args.names_values.items # <<>>
     /\ args.where # None)
    => LET m == args.names_values.items
           assignment(i) == m[i][1] \o <<" ","="," ">> \o write_val(m[i][2])
           wanted == [i \in 1..Len(m) |->
                         IF i = 1 THEN <<"S","E","T"," ">> \o assignment(1)
                         ELSE assignment(i)]
           clause == <<"W","H","E","R","E"," ">> \o args.where.s \o <<";">>
           after == InOrderFrom(ret.str, wanted, 1)
       IN  /\ ret.raised = "none"
           /\ StartsWith(ret.str, <<"U","P","D","A","T","E"," ">> \o args.table_name)
           /\ EndsWith(ret.str, clause)
           /\ after # 0
           /\ after <= Len(ret.str) - Len(clause) + 1

C4_Witness ==
    /\ Returned
    /\ op = "update"
    /\ Len(args.names_values.items) = 2
    /\ args.where = Str(<<"i","d","=","5">>)

\* The case C5 is about, and the names of a list joined by ', '.
DropIfExistsCase ==
    /\ pc = "done"
    /\ op = "drop_table"
    /\ args.table_names.kind = "list"
    /\ args.table_names.items # <<>>
    /\ args.if_exists
    /\ ~args.cascade
    /\ ~args.restrict

NameList(ns) ==
    JoinStr(<<","," ">>, [i \in 1..Len(ns.items) |-> ns.items[i].s])

(***************************************************************************)
(* C5 as claimed: drop_table of a list of k >= 1 names with if_exists and  *)
(* neither cascade nor restrict returns 'DROP TABLE IF EXISTS  n1, ...;',  *)
(* one space between TABLE and IF.                                         *)
(***************************************************************************)
C5_DropIfExistsOneSpace ==
    DropIfExistsCase
    => ret = Ok(<<"D","R","O","P"," ","T","A","B","L","E"," ">> \o <<"I","F"," ","E","X","I","S","T","S"," "," ">>
                \o NameList(args.table_names) \o <<";">>)

(***************************************************************************)
(* C5 amended: the string is 'DROP TABLE  IF EXISTS  n1, ..., nk;': two    *)
(* spaces between TABLE and IF, two after EXISTS, names joined by ', '.    *)
(***************************************************************************)
C5_DropIfExistsTwoSpaces ==
    DropIfExistsCase
    => ret = Ok(<<"D","R","O","P"," ","T","A","B","L","E"," "," ">> \o <<"I","F"," ","E","X","I","S","T","S"," "," ">>
                \o NameList(args.table_names) \o <<";">>)

C5_Witness == DropIfExistsCase /\ Len(args.table_names.items) = 2

(***************************************************************************)
(* C6 as claimed: with cascade and restrict both set, cascade wins: the    *)
(* string holds ' CASCADE' and no ' RESTRICT'.                             *)
(***************************************************************************)
C6_CascadeWins ==
    (pc = "done" /\ op = "drop_table" /\ args.cascade /\ args.restrict)
    => /\ ret.raised = "none"
       /\ Contains(ret.str, <<" ","C","A","S","C","A","D","E">>)
       /\ ~Contains(ret.str, <<" ","R","E","S","T","R","I","C","T">>)

(***************************************************************************)
(* C6 amended: with cascade and restrict both set, neither keyword is      *)
(* appended; with exactly one set, that keyword alone follows the table    *)
(* names; with neither set, neither keyword appears.                       *)
(***************************************************************************)
C6_CascadeRestrict ==
    (pc = "done" /\ op = "drop_table")
    => LET names == IF args.table_names.kind = "str"
                    THEN args.table_names.s
                    ELSE NameList(args.table_names)
           hasCascade == Contains(ret.str, <<" ","C","A","S","C","A","D","E">>)
           hasRestrict == Contains(ret.str, <<" ","R","E","S","T","R","I","C","T">>)
       IN  /\ ret.raised = "none"
           /\ (args.cascade /\ args.restrict)
                  => ~hasCascade /\ ~hasRestrict
           /\ (args.cascade /\ ~args.restrict)
                  => EndsWith(ret.str, names \o <<" ","C","A","S","C","A","D","E",";">>) /\ ~hasRestrict
           /\ (args.restrict /\ ~args.cascade)
                  => EndsWith(ret.str, names \o <<" ","R","E","S","T","R","I","C","T",";">>) /\ ~hasCascade
           /\ (~args.cascade /\ ~args.restrict)
                  => ~hasCascade /\ ~hasRestrict

C6_Witness ==
    /\ Returned
    /\ op = "drop_table"
    /\ args.cascade
    /\ args.restrict
    /\ args.table_names.kind = "list"
    /\ Len(args.table_names.items) = 2

\* What each clause of select starts with, in grammar order.
ClauseKeywords ==
    <<<<"S","E","L","E","C","T"," ">>,
      <<"\n","F","R","O","M"," ">>,
      <<"\n","W","H","E","R","E"," ">>,
      <<"\n","G","R","O","U","P"," ","B","Y"," ">>,
      <<"\n","H","A","V","I","N","G"," ">>,
      <<"\n","O","R","D","E","R"," ","B","Y">>,
      <<"\n","L","I","M","I","T"," ">>,
      <<"\n","O","F","F","S","E","T"," ">>,
      <<"\n","F","E","T","C","H"," ">>>>

(***************************************************************************)
(* C7: the clauses of select appear in the order SELECT, FROM, WHERE,      *)
(* GROUP BY, HAVING, ORDER BY, LIMIT, OFFSET, FETCH, each at most once;    *)
(* SELECT and FROM are always there, and each of WHERE, GROUP BY, HAVING,  *)
(* LIMIT, OFFSET, FETCH is there exactly when its argument is not None.    *)
(***************************************************************************)
C7_SelectClauseOrder ==
    (pc = "done" /\ op = "select")
    => LET at(i) == Occurrences(ret.str, ClauseKeywords[i])
           n == Len(ClauseKeywords)
       IN  /\ ret.raised = "none"
           /\ \A i \in 1..n : Cardinality(at(i)) <= 1
           /\ at(1) = {1}
           /\ at(2) # {}
           /\ \A i, j \in 1..n :
                  i < j => \A x \in at(i), y \in at(j) : x < y
           /\ at(3) # {} <=> args.where # None
           /\ at(4) # {} <=> args.group_by # None
           /\ at(5) # {} <=> args.having # None
           /\ at(7) # {} <=> args.limit # None
           /\ at(8) # {} <=> args.offset # None
           /\ at(9) # {} <=> args.fetch # None

C7_Witness ==
    /\ Returned
    /\ op = "select"
    /\ args.where # None
    /\ args.group_by # None
    /\ args.having # None
    /\ args.order_by # None
    /\ args.order_desc
    /\ args.limit # None
    /\ args.offset # None
    /\ args.fetch # None

(***************************************************************************)
(* C8: select with order_desc set and order_by None emits no ORDER BY      *)
(* clause without a column list.  With order_by None there are no columns  *)
(* to list, so the string holds no ORDER BY at all.                        *)
(***************************************************************************)
C8_NoBareOrderBy ==
    (pc = "done" /\ op = "select" /\ args.order_by = None /\ args.order_desc)
    => ~Contains(ret.str, <<"O","R","D","E","R"," ","B","Y">>)

(***************************************************************************)
(* C9: no builder rejects malformed input: an empty mapping, a multi-row   *)
(* insert whose rows have different column sets, and drop_table with       *)
(* cascade and restrict both set each return a string and do not raise.    *)
(***************************************************************************)
C9_NeverRaises ==
    pc = "done"
    => /\ (op = "insert" /\ args.names_values = Dict(<<>>))
              => ret.raised = "none"
       /\ (op = "update" /\ args.names_values = Dict(<<>>))
              => ret.raised = "none"
       /\ (op = "create_table" /\ args.names_types = Dict(<<>>))
              => ret.raised = "none"
       /\ (op = "procedure_call" /\ args.param_args = Dict(<<>>))
              => ret.raised = "none"
       /\ (/\ op = "insert"
           /\ args.names_values.kind = "list"
           /\ \E i, j \in 1..Len(args.names_values.items) :
                  ColumnSet(args.names_values.items[i])
                      # ColumnSet(args.names_values.items[j]))
              => ret.raised = "none"
       /\ (op = "drop_table" /\ args.cascade /\ args.restrict)
              => ret.raised = "none"

(***************************************************************************)
(* C10: a column, group_by or order_by argument given as one name (a str)  *)
(* yields the same string as the one-element tuple of that name.           *)
(***************************************************************************)
C10_NameSameAsOneTuple ==
    (pc = "done" /\ op = "select")
    => /\ args.cols.kind = "str"
              => ret = select(Tuple(<<args.cols>>), args.frm, args.distinct,
                              args.where, args.group_by, args.having,
                              args.order_by, args.order_desc, args.limit,
                              args.offset, args.fetch)
       /\ args.group_by.kind = "str"
              => ret = select(args.cols, args.frm, args.distinct, args.where,
                              Tuple(<<args.group_by>>), args.having,
                              args.order_by, args.order_desc, args.limit,
                              args.offset, args.fetch)
       /\ args.order_by.kind = "str"
              => ret = select(args.cols, args.frm, args.distinct, args.where,
                              args.group_by, args.having,
                              Tuple(<<args.order_by>>), args.order_desc,
                              args.limit, args.offset, args.fetch)

=============================================================================
